---------------------------- MODULE Spec2Model ----------------------------
(***************************************************************************)
(* Model of the resilient execution layer of the fact checker:             *)
(*   utils/rate_limiter.py  CircuitBreaker, RateLimiter                     *)
(*   utils/llm.py           call_llm_with_structured_output                 *)
(*   fact_checker/nodes/claim_verifier.py  claim_verifier_node              *)
(* The program runs on one asyncio event loop: the code between two         *)
(* suspension points of a coroutine is one atomic step.                     *)
(***************************************************************************)
EXTENDS Integers, Sequences, FiniteSets, TLC

(* ------------------------------ bounds -------------------------------- *)
NumRetryCallers == 1
MaxRetries == 3
NumCalls == 3
MaxPermits == 2
MaxThreshold == 2
MaxTimeout == 1
MaxWindow == 1
MaxAttempts == 6
MaxEvidence == 4
MaxBudget == 90
MaxIterations == 3
MaxFound == 2
MaxFailures == 5
MaxClock == 34

Callers == 1..NumCalls
RetryCallers == 1..NumRetryCallers
NoCaller == 0
None == -1
NoResult == "pending"
Values == {"v1", "v2"}

(* ------------------------- program constants -------------------------- *)
DefaultThreshold == 5
DefaultTimeout == 30
DefaultWindow == 60
DefaultMaxRetries == 3
DefaultMaxConcurrent == 4
ReservedOutput == 4000
MinEvidence == 3

VARIABLES
    now,                \* time.time()
    failure_threshold,  \* CircuitBreaker.failure_threshold
    timeout_seconds,    \* CircuitBreaker.timeout_seconds
    window_seconds,     \* CircuitBreaker.window_seconds
    failures,           \* CircuitBreaker.failures
    is_open,            \* CircuitBreaker.is_open
    opened_at,          \* CircuitBreaker.opened_at
    lock,               \* CircuitBreaker._lock: the caller holding it, or NoCaller
    max_concurrent,     \* RateLimiter(max_concurrent)
    semaphore,          \* RateLimiter.semaphore._value
    pc,                 \* position of each call of RateLimiter.execute
    wake,               \* end of the asyncio.sleep of a caller in check_and_wait
    streak,             \* history: times of the failures recorded since the last recorded success
    probe,              \* history: the caller whose check_and_wait half-opened the breaker
    max_retries,        \* call_llm_with_structured_output(max_retries)
    rpc,                \* position of each call of call_llm_with_structured_output
    attempt,            \* its loop variable  attempt
    wait_time,          \* its local  wait_time  while it sleeps (asyncio.sleep(wait_time))
    host,               \* the caller of execute in whose task the call was made
    result,             \* what the call returned
    last,               \* history: the outcome (return, raise, cancel) the last step recorded
    items,              \* process_with_voting(items)
    completions,        \* process_with_voting(completions)
    min_successes,      \* process_with_voting(min_successes)
    gathered,           \* history: each item the loop has processed, with its  attempts
    results,            \* the local  results  of process_with_voting
    vpc,                \* position of the call of process_with_voting
    pending,            \* the attempts of the current item that asyncio.gather still awaits
    slots,              \* the results asyncio.gather has collected for the current item
    evidence_items,     \* truncate_evidence_for_token_limit(evidence_items)
    prompt_chars,       \* len(system_prompt + human_prompt_template.format(..., evidence_snippets=""))
    max_tokens,         \* truncate_evidence_for_token_limit(max_tokens)
    truncated,          \* what truncate_evidence_for_token_limit returned
    tpc,                \* position of the call of truncate_evidence_for_token_limit
    evidence,           \* ClaimVerifierState.evidence (the urls of the items)
    iteration_count,    \* ClaimVerifierState.iteration_count
    max_iterations,     \* ITERATIVE_SEARCH_CONFIG["max_iterations"]
    assessment,         \* ClaimVerifierState.intermediate_assessment
    node,               \* the node of the verifier graph the run is at
    consulted,          \* history: the last evaluation asked the model for its assessment
    response,           \* the local  response  of the last evaluation (NoResponse: None)
    evals               \* history: the number of evaluations of search_decision_node

vars == <<now, failure_threshold, timeout_seconds, window_seconds, failures,
          is_open, opened_at, lock, max_concurrent, semaphore, pc, wake,
          streak, probe, max_retries, rpc, attempt, wait_time, host, result, last,
          items, completions, min_successes, gathered, results, vpc,
          pending, slots, evidence_items, prompt_chars, max_tokens, truncated, tpc,
          evidence, iteration_count, max_iterations, assessment, node,
          consulted, response, evals>>

breaker == <<failures, is_open, opened_at, lock>>
config == <<failure_threshold, timeout_seconds, window_seconds, max_concurrent,
            max_retries>>
retry == <<rpc, attempt, wait_time, host, result>>
gate == <<failures, is_open, opened_at, lock, semaphore, pc, wake, streak,
          probe>>
voting == <<items, completions, min_successes, gathered, results, vpc,
            pending, slots>>
\* the state of the pipeline stages that use the layer
budget == <<evidence_items, prompt_chars, max_tokens, truncated, tpc>>
search == <<evidence, iteration_count, max_iterations, assessment, node,
            consulted, response, evals>>
nodes == <<voting, budget, search>>

(* --------------------------- error messages --------------------------- *)
\* An exception raised by a task: the HTTP status of the response that
\* caused it and str(e), as a sequence of characters.
Errors ==
    { [status |-> 500, msg |-> <<"H","T","T","P"," ","5","0","0">>],
      [status |-> 504, msg |-> <<"H","T","T","P"," ","5","0","4">>],
      [status |-> 400, msg |-> <<"4","0","0"," ","B","a","d">>],
      [status |-> 400, msg |-> <<"4","0","0"," ","m","a","x"," ","5","0","0","0">>] }

\* The exceptions raised by  llm.with_structured_output(...).ainvoke
LlmErrors ==
    { [status |-> 429, msg |-> <<"4","2","9"," ","B","u","s","y">>],
      [status |-> 429, msg |-> <<"R","a","t","e","_","L","i","m","i","t">>],
      [status |-> 403, msg |-> <<"Q","u","o","t","a">>],
      [status |-> 500, msg |-> <<"H","T","T","P"," ","5","0","0">>],
      [status |-> 400, msg |-> <<"4","0","0"," ","B","a","d">>] }

NoError == [status |-> 0, msg |-> <<>>]

\* the value of the history variable  last  after a step that is not the
\* outcome of a task or of an attempt
NoStep == [op |-> "none", c |-> NoCaller, err |-> NoError]

\* str.lower() on one character
LowerChar(ch) ==
    CASE ch = "H" -> "h"
      [] ch = "T" -> "t"
      [] ch = "P" -> "p"
      [] ch = "B" -> "b"
      [] ch = "Q" -> "q"
      [] ch = "R" -> "r"
      [] ch = "L" -> "l"
      [] OTHER -> ch

Lower(s) == [i \in 1..Len(s) |-> LowerChar(s[i])]

\* Python's  sub in s
Contains(sub, s) ==
    \E i \in 0..(Len(s) - Len(sub)) :
        \A j \in 1..Len(sub) : s[i + j] = sub[j]

\* rate_limiter.py:133-134
IsServerError(e) ==
    LET error_msg == Lower(e.msg)
    IN  \/ Contains(<<"5","0","0">>, error_msg)
        \/ Contains(<<"5","0","2">>, error_msg)
        \/ Contains(<<"5","0","3">>, error_msg)

\* llm.py:122
IsRateLimit(e) ==
    \/ Contains(<<"r","a","t","e","_","l","i","m","i","t">>, Lower(e.msg))
    \/ Contains(<<"4","2","9">>, e.msg)
    \/ Contains(<<"q","u","o","t","a">>, Lower(e.msg))

\* backoff that doubles the wait of a rate-limited failure instead of tripling it
WaitTime_Double(a, is_rate_limit) ==
    IF is_rate_limit THEN (2 ^ a) * 2 ELSE 2 ^ a

\* llm.py:125-128
WaitTime(a, is_rate_limit) ==
    IF is_rate_limit THEN (2 ^ a) * 3 ELSE 2 ^ a

(* --------------------------- CircuitBreaker --------------------------- *)
\* a window that is never pruned
Prune_KeepAll(fs, current_time, window) == fs

\* rate_limiter.py:48-50
Prune(fs, current_time, window) ==
    SelectSeq(fs, LAMBDA f : current_time - f < window)

\* record_failure opening only above the threshold (> for >=)
record_failure_Strict(fs, open, at, current_time, threshold, window) ==
    LET kept == SelectSeq(Append(fs, current_time),
                          LAMBDA f : current_time - f < window)
    IN  IF Len(kept) > threshold /\ ~open
        THEN <<kept, TRUE, current_time>>
        ELSE <<kept, open, at>>

\* record_failure opening the breaker without stamping opened_at
record_failure_NoStamp(fs, open, at, current_time, threshold, window) ==
    LET kept == Prune(Append(fs, current_time), current_time, window)
    IN  IF Len(kept) >= threshold /\ ~open
        THEN <<kept, TRUE, at>>
        ELSE <<kept, open, at>>

\* record_failure stamping opened_at with the oldest failure of the window
record_failure_StampFirst(fs, open, at, current_time, threshold, window) ==
    LET kept == Prune(Append(fs, current_time), current_time, window)
    IN  IF Len(kept) >= threshold /\ ~open
        THEN <<kept, TRUE, kept[1]>>
        ELSE <<kept, open, at>>

\* rate_limiter.py:41-59; the result is <<failures, is_open, opened_at>>
record_failure(fs, open, at, current_time, threshold, window) ==
    LET kept == Prune(Append(fs, current_time), current_time, window)
    IN  IF Len(kept) >= threshold /\ ~open
        THEN <<kept, TRUE, current_time>>
        ELSE <<kept, open, at>>

\* record_success clearing the window but leaving an open breaker open
record_success_KeepOpen(fs, open, at) ==
    <<IF fs # <<>> THEN <<>> ELSE fs, open, at>>

\* rate_limiter.py:61-70
record_success(fs, open, at) ==
    <<IF fs # <<>> THEN <<>> ELSE fs,
      IF open THEN FALSE ELSE open,
      IF open THEN None ELSE at>>

(* ------------------------- process_with_voting ------------------------ *)
\* What one attempt of the processor returns, (success, result):
\* _single_contextualization_attempt gives (False, "") when the call gave
\* nothing and (True, response.contextualized_text.strip()) otherwise; the
\* stripped text of a blank answer is "".
AttemptOutcomes ==
    { <<FALSE, "">>, <<TRUE, "">>, <<TRUE, "a">>, <<TRUE, "b">> }

\* Python truth value of a result ("None" stands for None)
Truthy(v) == v # "None" /\ v # ""

\* contextualization.py:133-143
result_factory(res, it) == res

\* llm.py:180
success_count(atts) == Cardinality({i \in 1..Len(atts) : atts[i][1]})

\* llm.py:190-195: the results appended for one item, from attempt i on
RECURSIVE first_accepted(_, _, _)
first_accepted(atts, it, i) ==
    IF i > Len(atts)
    THEN <<>>
    ELSE IF atts[i][1] /\ atts[i][2] # "None"
         THEN LET processed_result == result_factory(atts[i][2], it)
              IN  IF Truthy(processed_result)
                  THEN <<processed_result>>
                  ELSE first_accepted(atts, it, i + 1)
         ELSE first_accepted(atts, it, i + 1)

\* one pass of the loop without the quorum test
vote_item_NoQuorum(acc, atts, it, min) ==
    acc \o first_accepted(atts, it, 1)

\* one pass of the loop in which a dropped item empties the results
vote_item_Reset(acc, atts, it, min) ==
    IF success_count(atts) < min
    THEN <<>>
    ELSE acc \o first_accepted(atts, it, 1)

\* llm.py:179-195: one pass of the loop over items; acc is  results
vote_item(acc, atts, it, min) ==
    IF success_count(atts) < min
    THEN acc
    ELSE acc \o first_accepted(atts, it, 1)

\* llm.py:171-197 on the items inp[k..], each with the attempts gathered for it
RECURSIVE voting_loop(_, _, _, _)
voting_loop(inp, k, min, acc) ==
    IF k > Len(inp)
    THEN acc
    ELSE voting_loop(inp, k + 1, min,
                     vote_item(acc, inp[k].attempts, inp[k].item, min))

process_with_voting(inp, min) == voting_loop(inp, 1, min, <<>>)

\* no call of process_with_voting is in progress
VotingIdle ==
    /\ items = <<>>
    /\ completions = 1
    /\ min_successes = 1
    /\ gathered = <<>>
    /\ results = <<>>
    /\ vpc = "idle"
    /\ pending = {}
    /\ slots = <<>>

(* ------------------- truncate_evidence_for_token_limit ----------------- *)
\* Evidence items as the formatter sees them: the url tells items apart
\* (two Evidence objects with the same fields are equal) and chars is the
\* length of the block  "Source i: url\nSnippet: text\n---"  of the item.
EvidencePool ==
    { [url |-> "u1", chars |-> 28],
      [url |-> "u2", chars |-> 28],
      [url |-> "u3", chars |-> 44] }

\* the lengths of the prompt without evidence
PromptLengths == {4, 8}

\* llm.py:22-24: int(len(text) * 0.75), on the length of the text
estimate_token_count(chars) == (3 * chars) \div 4

RECURSIVE SumChars(_)
SumChars(ev) ==
    IF ev = <<>> THEN 0 ELSE Head(ev).chars + SumChars(Tail(ev))

\* evaluate_evidence.py:52-63: the length of _format_evidence_snippets(ev),
\* the blocks joined by "\n\n"
format_chars(ev) ==
    IF ev = <<>> THEN 41 ELSE SumChars(ev) + 2 * (Len(ev) - 1)

\* Python's  e in lst
IsIn(e, lst) == \E i \in 1..Len(lst) : lst[i] = e

\* llm.py:57-63: the walk over reversed(evidence_items) from position i down
RECURSIVE greedy_walk(_, _, _, _)
greedy_walk(ev, i, selected, available_tokens) ==
    IF i < 1
    THEN selected
    ELSE LET test_tokens == estimate_token_count(
                                format_chars(Append(selected, ev[i])))
         IN  IF test_tokens <= available_tokens
             THEN greedy_walk(ev, i - 1, Append(selected, ev[i]),
                              available_tokens)
             ELSE selected

\* evidence_items[:k]
FirstItems(ev, k) == SubSeq(ev, 1, IF k < Len(ev) THEN k ELSE Len(ev))

\* truncation that returns nothing when the budget is below the overhead
truncate_DegenerateEmpty(ev, pchars, maxtok) ==
    IF ev = <<>>
    THEN ev
    ELSE LET base_tokens == estimate_token_count(pchars)
             available_tokens == maxtok - base_tokens - ReservedOutput
         IN  IF available_tokens <= 0
             THEN <<>>
             ELSE LET selected == greedy_walk(ev, Len(ev), <<>>, available_tokens)
                      res == SelectSeq(ev, LAMBDA e : IsIn(e, selected))
                  IN  IF Len(res) = 0 /\ Len(ev) > 0
                      THEN FirstItems(ev, MinEvidence)
                      ELSE IF Len(res) < MinEvidence /\ Len(ev) >= MinEvidence
                           THEN FirstItems(ev, MinEvidence)
                           ELSE res

\* llm.py:27-79
truncate_evidence_for_token_limit(ev, pchars, maxtok) ==
    IF ev = <<>>
    THEN ev
    ELSE LET base_tokens == estimate_token_count(pchars)
             available_tokens == maxtok - base_tokens - ReservedOutput
         IN  IF available_tokens <= 0
             THEN FirstItems(ev, MinEvidence)
             ELSE LET selected == greedy_walk(ev, Len(ev), <<>>, available_tokens)
                      res == SelectSeq(ev, LAMBDA e : IsIn(e, selected))
                  IN  IF Len(res) = 0 /\ Len(ev) > 0
                      THEN FirstItems(ev, MinEvidence)
                      ELSE IF Len(res) < MinEvidence /\ Len(ev) >= MinEvidence
                           THEN FirstItems(ev, MinEvidence)
                           ELSE res

\* no call of truncate_evidence_for_token_limit is in progress
BudgetIdle ==
    /\ evidence_items = <<>>
    /\ prompt_chars = 0
    /\ max_tokens = ReservedOutput
    /\ truncated = <<>>
    /\ tpc = "idle"

(* -------------------------- search_decision_node ----------------------- *)
\* search_decision.py:25-41
AUTHORITATIVE_DOMAINS ==
    { <<"g","o","v">>,
      <<"e","d","u">>,
      <<".","o","r","g">>,
      <<"w","h","o",".","i","n","t">>,
      <<"i","m","f",".","o","r","g">>,
      <<"w","o","r","l","d","b","a","n","k",".","o","r","g">>,
      <<"u","n",".","o","r","g">>,
      <<"n","a","s","a",".","g","o","v">>,
      <<"c","d","c",".","g","o","v">>,
      <<"n","i","h",".","g","o","v">>,
      <<"n","a","t","u","r","e",".","c","o","m">>,
      <<"s","c","i","e","n","c","e",".","o","r","g">>,
      <<"n","e","j","m",".","o","r","g">>,
      <<"w","i","k","i","p","e","d","i","a",".","o","r","g">>,
      <<"b","r","i","t","a","n","n","i","c","a",".","c","o","m">> }

\* the urls of the evidence a search round can find
UrlPool ==
    { <<"c","d","c",".","g","o","v">>,
      <<"x",".","c","o","m">>,
      <<"m","y","g","o","v",".","c","o">> }

\* search_decision.py:55, 105: any(domain in url_lower for domain in ...)
IsAuthoritative(url) ==
    \E domain \in AUTHORITATIVE_DOMAINS : Contains(domain, Lower(url))

\* a check that wants every item to be from an authoritative source
has_authoritative_source_All(ev) ==
    \A i \in 1..Len(ev) : IsAuthoritative(ev[i])

\* search_decision.py:44-57
has_authoritative_source(ev) ==
    \E i \in 1..Len(ev) : IsAuthoritative(ev[i])

\* search_decision.py:105
authoritative_count(ev) ==
    Cardinality({i \in 1..Len(ev) : IsAuthoritative(ev[i])})

\* what call_llm_with_structured_output gives search_decision_node: nothing
\* (None) or a SearchDecisionOutput
NoResponse == [answered |-> FALSE, needs_more_evidence |-> FALSE]
Responses ==
    { NoResponse,
      [answered |-> TRUE, needs_more_evidence |-> TRUE],
      [answered |-> TRUE, needs_more_evidence |-> FALSE] }

\* no claim is being verified
SearchIdle ==
    /\ evidence = <<>>
    /\ iteration_count = 0
    /\ max_iterations = 1
    /\ assessment = NoResponse
    /\ node = "idle"
    /\ consulted = FALSE
    /\ response = NoResponse
    /\ evals = 0

(* ------------------------------- Init --------------------------------- *)
Init ==
    /\ now = 0
    /\ failure_threshold \in 1..MaxThreshold
    /\ timeout_seconds \in 1..MaxTimeout
    /\ window_seconds \in 1..MaxWindow
    /\ failures = <<>>
    /\ is_open = FALSE
    /\ opened_at = None
    /\ lock = NoCaller
    /\ max_concurrent \in 1..MaxPermits
    /\ semaphore = max_concurrent
    /\ pc = [c \in Callers |-> "idle"]
    /\ wake = [c \in Callers |-> 0]
    /\ streak = <<>>
    /\ probe = NoCaller
    /\ max_retries = DefaultMaxRetries
    /\ rpc = [r \in RetryCallers |-> "idle"]
    /\ attempt = [r \in RetryCallers |-> 0]
    /\ wait_time = [r \in RetryCallers |-> 0]
    /\ host = [r \in RetryCallers |-> NoCaller]
    /\ result = [r \in RetryCallers |-> NoResult]
    /\ last = NoStep
    /\ VotingIdle
    /\ BudgetIdle
    /\ SearchIdle

(* ------------------------------ actions ------------------------------- *)
\* The clock advances.  It is followed only while the time still decides
\* something: a sleep has not ended, the OPEN timeout has not elapsed, or a
\* recorded failure is still inside the window.
Tick ==
    /\ \/ \E c \in Callers : pc[c] = "sleep" /\ wake[c] > now
       \/ is_open /\ now - opened_at < timeout_seconds
       \/ \E i \in 1..Len(failures) : now - failures[i] < window_seconds
    /\ now' = now + 1
    /\ last' = NoStep
    /\ UNCHANGED <<config, nodes, breaker, semaphore, pc, wake, streak, probe, retry>>

\* entry without the semaphore's bound: a slot is taken even when none is free
Enter_Unbounded(c) ==
    /\ semaphore' = semaphore - 1
    /\ pc' = [pc EXCEPT ![c] = "task"]

\* entry that rejects the caller when no slot is free instead of blocking
Enter_Reject(c) ==
    IF semaphore > 0
    THEN /\ semaphore' = semaphore - 1
         /\ pc' = [pc EXCEPT ![c] = "task"]
    ELSE /\ semaphore' = semaphore
         /\ pc' = [pc EXCEPT ![c] = "done"]

\* rate_limiter.py:126: entry of  async with self.semaphore.  A free slot is
\* taken without suspending; otherwise the caller blocks in acquire().
Enter(c) ==
    IF semaphore > 0
    THEN /\ semaphore' = semaphore - 1
         /\ pc' = [pc EXCEPT ![c] = "task"]
    ELSE /\ semaphore' = semaphore
         /\ pc' = [pc EXCEPT ![c] = "acquire"]

\* check_and_wait that sleeps inside the locked section
Execute_SleepLocked(c) ==
    /\ pc[c] = "idle"
    /\ \A d \in Callers : d < c => pc[d] # "idle"
    /\ lock = NoCaller
    /\ IF is_open
       THEN LET current_time == now
                elapsed == current_time - opened_at
            IN  IF elapsed >= timeout_seconds
                THEN /\ is_open' = FALSE
                     /\ opened_at' = None
                     /\ lock' = NoCaller
                     /\ Enter(c)
                     /\ wake' = wake
                     /\ probe' = c
                     /\ last' = NoStep
                ELSE /\ UNCHANGED <<is_open, opened_at, probe, semaphore>>
                     /\ lock' = c
                     /\ pc' = [pc EXCEPT ![c] = "sleep"]
                     /\ wake' = [wake EXCEPT ![c] = current_time + (timeout_seconds - elapsed)]
                     /\ last' = NoStep
       ELSE /\ UNCHANGED <<is_open, opened_at, wake, probe>>
            /\ lock' = NoCaller
            /\ Enter(c)
            /\ last' = NoStep
    /\ UNCHANGED <<now, config, nodes, failures, streak, retry>>

\* rate_limiter.py:111-126: call c of execute is made (the calls are numbered
\* in the order they are made) and runs check_and_wait (rate_limiter.py:72-95)
\* up to its return or its sleep.  The locked section (lines 74-91) has no
\* await inside: the lock is taken and released within the step, and the
\* sleep of line 95 is outside it.
Execute(c) ==
    /\ pc[c] = "idle"
    /\ \A d \in Callers : d < c => pc[d] # "idle"
    /\ lock = NoCaller
    /\ IF is_open
       THEN LET current_time == now
                elapsed == current_time - opened_at
            IN  IF elapsed >= timeout_seconds
                THEN /\ is_open' = FALSE
                     /\ opened_at' = None
                     /\ lock' = NoCaller
                     /\ Enter(c)
                     /\ wake' = wake
                     /\ probe' = c
                     /\ last' = NoStep
                ELSE /\ UNCHANGED <<is_open, opened_at, probe, semaphore>>
                     /\ lock' = NoCaller
                     /\ pc' = [pc EXCEPT ![c] = "sleep"]
                     /\ wake' = [wake EXCEPT ![c] = current_time + (timeout_seconds - elapsed)]
                     /\ last' = NoStep
       ELSE /\ UNCHANGED <<is_open, opened_at, wake, probe>>
            /\ lock' = NoCaller
            /\ Enter(c)
            /\ last' = NoStep
    /\ UNCHANGED <<now, config, nodes, failures, streak, retry>>

\* rate_limiter.py:94-95: the sleep ends, check_and_wait returns and
\* execute goes on to the semaphore
Wake(c) ==
    /\ pc[c] = "sleep"
    /\ now >= wake[c]
    /\ Enter(c)
    /\ wake' = [wake EXCEPT ![c] = 0]
    /\ last' = NoStep
    /\ UNCHANGED <<now, config, nodes, breaker, streak, probe, retry>>

\* rate_limiter.py:126: a caller blocked in semaphore.acquire() gets a slot
Acquire(c) ==
    /\ pc[c] = "acquire"
    /\ semaphore > 0
    /\ semaphore' = semaphore - 1
    /\ pc' = [pc EXCEPT ![c] = "task"]
    /\ last' = NoStep
    /\ UNCHANGED <<now, config, nodes, breaker, wake, streak, probe, retry>>

\* the task of caller c awaits the calls made inside it
Hosted(c) == {r \in RetryCallers : host[r] = c /\ rpc[r] \in {"invoke", "backoff"}}

\* history bookkeeping when caller c leaves execute
Leave(c) ==
    probe' = IF probe = c THEN NoCaller ELSE probe

\* rate_limiter.py:128-130 and the exit of the async with
TaskReturn(c) ==
    /\ pc[c] = "task"
    /\ Hosted(c) = {}
    /\ lock = NoCaller
    /\ LET r == record_success(failures, is_open, opened_at)
       IN  /\ failures' = r[1]
           /\ is_open' = r[2]
           /\ opened_at' = r[3]
    /\ lock' = NoCaller
    /\ semaphore' = semaphore + 1
    /\ pc' = [pc EXCEPT ![c] = "done"]
    /\ streak' = <<>>
    /\ Leave(c)
    /\ last' = [op |-> "return", c |-> c, err |-> NoError]
    /\ UNCHANGED <<now, config, nodes, wake, retry>>

\* rate_limiter.py:131-136 and the exit of the async with
TaskRaise(c, e) ==
    /\ pc[c] = "task"
    /\ Hosted(c) = {}
    /\ IF IsServerError(e)
       THEN /\ lock = NoCaller
            /\ LET r == record_failure(failures, is_open, opened_at, now,
                                       failure_threshold, window_seconds)
               IN  /\ failures' = r[1]
                   /\ is_open' = r[2]
                   /\ opened_at' = r[3]
            /\ lock' = NoCaller
            /\ streak' = Append(streak, now)
       ELSE UNCHANGED <<failures, is_open, opened_at, lock, streak>>
    /\ semaphore' = semaphore + 1
    /\ pc' = [pc EXCEPT ![c] = "done"]
    /\ Leave(c)
    /\ last' = [op |-> "raise", c |-> c, err |-> e]
    /\ UNCHANGED <<now, config, nodes, wake, retry>>

\* cancellation that skips the release of the slot held by a running task
Cancel_Leak(c) ==
    /\ pc[c] \in {"sleep", "acquire", "task"}
    /\ Hosted(c) = {}
    /\ semaphore' = semaphore
    /\ pc' = [pc EXCEPT ![c] = "done"]
    /\ wake' = [wake EXCEPT ![c] = 0]
    /\ Leave(c)
    /\ last' = [op |-> "cancel", c |-> c, err |-> NoError]
    /\ UNCHANGED <<now, config, nodes, breaker, streak, retry>>

\* the caller's task is cancelled at a suspension point (the sleep, the
\* blocked acquire or the running task): CancelledError unwinds execute
Cancel(c) ==
    /\ pc[c] \in {"sleep", "acquire", "task"}
    /\ Hosted(c) = {}
    /\ semaphore' = IF pc[c] = "task" THEN semaphore + 1 ELSE semaphore
    /\ pc' = [pc EXCEPT ![c] = "done"]
    /\ wake' = [wake EXCEPT ![c] = 0]
    /\ Leave(c)
    /\ last' = [op |-> "cancel", c |-> c, err |-> NoError]
    /\ UNCHANGED <<now, config, nodes, breaker, streak, retry>>

(* ------------------- call_llm_with_structured_output ------------------ *)
\* llm.py:103-107: a node calls call_llm_with_structured_output and the
\* first attempt is sent.  h is the caller of execute whose task
\* (claim_verifier_graph.ainvoke, claim_verifier.py:39) runs the node, or
\* NoCaller for a node of the claim extractor (decomposition.py:72,
\* contextualization.py:120).
RetryCall(r, h) ==
    /\ rpc[r] = "idle"
    /\ h # NoCaller => (pc[h] = "task" /\ Hosted(h) = {})
    /\ rpc' = [rpc EXCEPT ![r] = "invoke"]
    /\ attempt' = [attempt EXCEPT ![r] = 0]
    /\ host' = [host EXCEPT ![r] = h]
    /\ last' = NoStep
    /\ UNCHANGED <<now, config, nodes, gate, wait_time, result>>

\* llm.py:107-114: the attempt returns a value
InvokeOk(r, v) ==
    /\ rpc[r] = "invoke"
    /\ rpc' = [rpc EXCEPT ![r] = "done"]
    /\ result' = [result EXCEPT ![r] = v]
    /\ last' = [op |-> "llm_ok", c |-> r, err |-> NoError]
    /\ UNCHANGED <<now, config, nodes, gate, attempt, wait_time, host>>

\* a retry loop that allows one attempt more than max_retries
InvokeFail_Extra(r, e) ==
    /\ rpc[r] = "invoke"
    /\ IF attempt[r] < max_retries
       THEN /\ rpc' = [rpc EXCEPT ![r] = "backoff"]
            /\ wait_time' = [wait_time EXCEPT ![r] = WaitTime(attempt[r], IsRateLimit(e))]
            /\ result' = result
       ELSE /\ rpc' = [rpc EXCEPT ![r] = "done"]
            /\ wait_time' = wait_time
            /\ result' = [result EXCEPT ![r] = "None"]
    /\ last' = [op |-> "llm_fail", c |-> r, err |-> e]
    /\ UNCHANGED <<now, config, nodes, gate, attempt, host>>

\* llm.py:116-145: the attempt raises e
InvokeFail(r, e) ==
    /\ rpc[r] = "invoke"
    /\ IF attempt[r] < max_retries - 1
       THEN /\ rpc' = [rpc EXCEPT ![r] = "backoff"]
            /\ wait_time' = [wait_time EXCEPT ![r] = WaitTime(attempt[r], IsRateLimit(e))]
            /\ result' = result
       ELSE /\ rpc' = [rpc EXCEPT ![r] = "done"]
            /\ wait_time' = wait_time
            /\ result' = [result EXCEPT ![r] = "None"]
    /\ last' = [op |-> "llm_fail", c |-> r, err |-> e]
    /\ UNCHANGED <<now, config, nodes, gate, attempt, host>>

\* llm.py:135, 105-107: asyncio.sleep(wait_time) ends and the next attempt
\* is sent
BackoffEnd(r) ==
    /\ rpc[r] = "backoff"
    /\ rpc' = [rpc EXCEPT ![r] = "invoke"]
    /\ attempt' = [attempt EXCEPT ![r] = attempt[r] + 1]
    /\ wait_time' = [wait_time EXCEPT ![r] = 0]
    /\ last' = NoStep
    /\ UNCHANGED <<now, config, nodes, gate, host, result>>

Next ==
    \/ Tick
    \/ \E c \in Callers : Execute(c)
    \/ \E c \in Callers : Wake(c)
    \/ \E c \in Callers : Acquire(c)
    \/ \E c \in Callers : TaskReturn(c)
    \/ \E c \in Callers, e \in Errors : TaskRaise(c, e)
    \/ \E c \in Callers : Cancel(c)

Spec == Init /\ [][Next]_vars

\* The pipeline: claim_verifier_node runs the verifier graph through the
\* process-wide RateLimiter (get_rate_limiter, rate_limiter.py:143-155, built
\* with the default breaker) and the nodes call the language model.
PipelineInit ==
    /\ now = 0
    /\ failure_threshold = DefaultThreshold
    /\ timeout_seconds = DefaultTimeout
    /\ window_seconds = DefaultWindow
    /\ failures = <<>>
    /\ is_open = FALSE
    /\ opened_at = None
    /\ lock = NoCaller
    /\ max_concurrent \in 1..MaxPermits
    /\ semaphore = max_concurrent
    /\ pc = [c \in Callers |-> "idle"]
    /\ wake = [c \in Callers |-> 0]
    /\ streak = <<>>
    /\ probe = NoCaller
    /\ max_retries \in 1..MaxRetries
    /\ rpc = [r \in RetryCallers |-> "idle"]
    /\ attempt = [r \in RetryCallers |-> 0]
    /\ wait_time = [r \in RetryCallers |-> 0]
    /\ host = [r \in RetryCallers |-> NoCaller]
    /\ result = [r \in RetryCallers |-> NoResult]
    /\ last = NoStep
    /\ VotingIdle
    /\ BudgetIdle
    /\ SearchIdle

PipelineNext ==
    \/ \E c \in Callers : Execute(c)
    \/ \E c \in Callers : Acquire(c)
    \/ \E c \in Callers : TaskReturn(c)
    \/ \E r \in RetryCallers, h \in Callers \cup {NoCaller} : RetryCall(r, h)
    \/ \E r \in RetryCallers, v \in Values : InvokeOk(r, v)
    \/ \E r \in RetryCallers, e \in LlmErrors : InvokeFail(r, e)
    \/ \E r \in RetryCallers : BackoffEnd(r)

PipelineSpec == PipelineInit /\ [][PipelineNext]_vars

(* ----------------------- the consensus aggregator --------------------- *)
\* the process-wide RateLimiter as get_rate_limiter builds it, with no call
\* of execute or of call_llm_with_structured_output in progress
LayerIdle ==
    /\ now = 0
    /\ failure_threshold = DefaultThreshold
    /\ timeout_seconds = DefaultTimeout
    /\ window_seconds = DefaultWindow
    /\ failures = <<>>
    /\ is_open = FALSE
    /\ opened_at = None
    /\ lock = NoCaller
    /\ max_concurrent = DefaultMaxConcurrent
    /\ semaphore = max_concurrent
    /\ pc = [c \in Callers |-> "idle"]
    /\ wake = [c \in Callers |-> 0]
    /\ streak = <<>>
    /\ probe = NoCaller
    /\ max_retries = DefaultMaxRetries
    /\ rpc = [r \in RetryCallers |-> "idle"]
    /\ attempt = [r \in RetryCallers |-> 0]
    /\ wait_time = [r \in RetryCallers |-> 0]
    /\ host = [r \in RetryCallers |-> NoCaller]
    /\ result = [r \in RetryCallers |-> NoResult]
    /\ last = NoStep

\* llm.py:148-173: process_with_voting is called; item i is the i-th text
\* and at most MaxAttempts attempts are launched in all.  With no item the
\* call returns at once.
VotingInit ==
    /\ LayerIdle
    /\ BudgetIdle
    /\ SearchIdle
    /\ completions \in 1..MaxAttempts
    /\ \E n \in 0..(MaxAttempts \div completions) : items = [i \in 1..n |-> i]
    /\ min_successes \in 1..(completions + 1)
    /\ gathered = <<>>
    /\ results = <<>>
    /\ vpc = IF items = <<>> THEN "returned" ELSE "gather"
    /\ pending = {}
    /\ slots = <<>>

\* llm.py:173-197: the attempts of the item being processed come back from
\* asyncio.gather as atts (in launch order) and are voted on; the loop then
\* launches the attempts of the next item, or returns results after the last
VoteItem ==
    /\ vpc = "gather"
    /\ \E atts \in [1..completions -> AttemptOutcomes] :
          LET it == items[Len(gathered) + 1]
          IN  /\ results' = vote_item(results, atts, it, min_successes)
              /\ gathered' = Append(gathered, [item |-> it, attempts |-> atts])
    /\ vpc' = IF Len(gathered') = Len(items) THEN "returned" ELSE "gather"
    /\ UNCHANGED <<now, config, gate, retry, last, items, completions,
                   min_successes, pending, slots, budget, search>>

VotingNext == VoteItem

VotingSpec == VotingInit /\ [][VotingNext]_vars

(* ---------------------- the attempts of one item ----------------------- *)
\* the slot of an attempt that has not completed
NoOutcome == <<FALSE, "">>

\* llm.py:175-177: the coroutines processor(item, llm) of the next item are
\* created, one per element of range(completions), and asyncio.gather starts
\* them all
Launch ==
    /\ vpc = "gather"
    /\ pending' = 1..completions
    /\ slots' = [i \in 1..completions |-> NoOutcome]
    /\ vpc' = "await"
    /\ UNCHANGED <<now, config, gate, retry, last, items, completions,
                   min_successes, gathered, results, budget, search>>

\* attempt i of the current item completes with outcome out; gather keeps it
\* at position i and goes on waiting for the others
AttemptDone(i, out) ==
    /\ vpc = "await"
    /\ i \in pending
    /\ pending' = pending \ {i}
    /\ slots' = [slots EXCEPT ![i] = out]
    /\ UNCHANGED <<now, config, gate, retry, last, items, completions,
                   min_successes, gathered, results, vpc, budget, search>>

\* a gather that returns as soon as the quorum is decided
GatherReturns_Early ==
    /\ vpc = "await"
    /\ pending = {} \/ success_count(slots) >= min_successes
    /\ LET it == items[Len(gathered) + 1]
       IN  /\ results' = vote_item(results, slots, it, min_successes)
           /\ gathered' = Append(gathered, [item |-> it, attempts |-> slots])
    /\ pending' = {}
    /\ slots' = <<>>
    /\ vpc' = IF Len(gathered') = Len(items) THEN "returned" ELSE "gather"
    /\ UNCHANGED <<now, config, gate, retry, last, items, completions,
                   min_successes, budget, search>>

\* llm.py:175-197: asyncio.gather returns when no attempt is left to wait
\* for; the item is voted on and the loop goes to the next item or returns
GatherReturns ==
    /\ vpc = "await"
    /\ pending = {}
    /\ LET it == items[Len(gathered) + 1]
       IN  /\ results' = vote_item(results, slots, it, min_successes)
           /\ gathered' = Append(gathered, [item |-> it, attempts |-> slots])
    /\ pending' = {}
    /\ slots' = <<>>
    /\ vpc' = IF Len(gathered') = Len(items) THEN "returned" ELSE "gather"
    /\ UNCHANGED <<now, config, gate, retry, last, items, completions,
                   min_successes, budget, search>>

GatherNext ==
    \/ Launch
    \/ \E i \in pending : \E out \in AttemptOutcomes : AttemptDone(i, out)
    \/ GatherReturns

GatherSpec == VotingInit /\ [][GatherNext]_vars

(* ------------------------- the evidence budgeter ----------------------- *)
RECURSIVE SeqsOf(_, _)
\* the lists of at most n elements of S
SeqsOf(S, n) ==
    IF n = 0
    THEN {<<>>}
    ELSE LET shorter == SeqsOf(S, n - 1)
         IN  shorter \cup {Append(q, x) : q \in shorter, x \in S}

\* evaluate_evidence.py:81-88: evaluate_evidence_node calls
\* truncate_evidence_for_token_limit on the evidence accumulated by the
\* search rounds (schemas.py:98: the lists of the rounds are added, so the
\* same item can occur twice)
BudgetInit ==
    /\ LayerIdle
    /\ VotingIdle
    /\ SearchIdle
    /\ evidence_items \in SeqsOf(EvidencePool, MaxEvidence)
    /\ prompt_chars \in PromptLengths
    /\ max_tokens \in ReservedOutput..(ReservedOutput + MaxBudget)
    /\ truncated = <<>>
    /\ tpc = "called"

\* llm.py:35-79: the call runs to its return
Truncate ==
    /\ tpc = "called"
    /\ truncated' = truncate_evidence_for_token_limit(evidence_items,
                                                      prompt_chars, max_tokens)
    /\ tpc' = "returned"
    /\ UNCHANGED <<now, config, gate, retry, last, voting, search,
                   evidence_items, prompt_chars, max_tokens>>

BudgetNext == Truncate

BudgetSpec == BudgetInit /\ [][BudgetNext]_vars

(* ------------------------- the search decision loop -------------------- *)
\* a run of the verifier graph starts: no evidence yet, iteration_count 0
\* (schemas.py:98-102), about to gather evidence for the first time
SearchInit ==
    /\ LayerIdle
    /\ VotingIdle
    /\ BudgetIdle
    /\ evidence = <<>>
    /\ iteration_count = 0
    /\ max_iterations \in 1..MaxIterations
    /\ assessment = NoResponse
    /\ node = "generate_search_query"
    /\ consulted = FALSE
    /\ response = NoResponse
    /\ evals = 0

\* a round of evidence gathering (query generation and retrieval): the items
\* found are added to the evidence and the run goes to search_decision
GatherEvidence(found) ==
    /\ node = "generate_search_query"
    /\ evidence' = evidence \o found
    /\ node' = "search_decision"
    /\ UNCHANGED <<now, config, gate, retry, last, voting, budget,
                   iteration_count, max_iterations, assessment, consulted,
                   response, evals>>

\* the decision without the test of the iteration cap
SearchDecision_NoCap ==
    /\ node = "search_decision"
    /\ evals' = evals + 1
    /\ IF Len(evidence) >= 3 /\ has_authoritative_source(evidence)
       THEN /\ node' = "evaluate_evidence"
            /\ consulted' = FALSE
            /\ response' = NoResponse
            /\ UNCHANGED <<iteration_count, assessment>>
       ELSE IF authoritative_count(evidence) >= 2 /\ Len(evidence) >= 2
       THEN /\ node' = "evaluate_evidence"
            /\ consulted' = FALSE
            /\ response' = NoResponse
            /\ UNCHANGED <<iteration_count, assessment>>
       ELSE /\ consulted' = TRUE
            /\ \E answer \in Responses :
                  /\ response' = answer
                  /\ IF ~answer.answered
                     THEN /\ node' = "evaluate_evidence"
                          /\ UNCHANGED <<iteration_count, assessment>>
                     ELSE LET should_continue ==
                                  /\ answer.needs_more_evidence
                                  /\ iteration_count < max_iterations
                          IN  IF should_continue
                              THEN /\ node' = "generate_search_query"
                                   /\ iteration_count' = iteration_count + 1
                                   /\ assessment' = answer
                              ELSE /\ node' = "evaluate_evidence"
                                   /\ iteration_count' = iteration_count
                                   /\ assessment' = answer
    /\ UNCHANGED <<now, config, gate, retry, last, voting, budget, evidence,
                   max_iterations>>

\* the decision that gathers again when the assessment gave no answer
SearchDecision_RetryOnFail ==
    /\ node = "search_decision"
    /\ evals' = evals + 1
    /\ IF iteration_count >= max_iterations
       THEN /\ node' = "evaluate_evidence"
            /\ consulted' = FALSE
            /\ response' = NoResponse
            /\ UNCHANGED <<iteration_count, assessment>>
       ELSE IF Len(evidence) >= 3 /\ has_authoritative_source(evidence)
       THEN /\ node' = "evaluate_evidence"
            /\ consulted' = FALSE
            /\ response' = NoResponse
            /\ UNCHANGED <<iteration_count, assessment>>
       ELSE IF authoritative_count(evidence) >= 2 /\ Len(evidence) >= 2
       THEN /\ node' = "evaluate_evidence"
            /\ consulted' = FALSE
            /\ response' = NoResponse
            /\ UNCHANGED <<iteration_count, assessment>>
       ELSE /\ consulted' = TRUE
            /\ \E answer \in Responses :
                  /\ response' = answer
                  /\ IF ~answer.answered
                     THEN /\ node' = "generate_search_query"
                          /\ UNCHANGED <<iteration_count, assessment>>
                     ELSE LET should_continue ==
                                  /\ answer.needs_more_evidence
                                  /\ iteration_count < max_iterations
                          IN  IF should_continue
                              THEN /\ node' = "generate_search_query"
                                   /\ iteration_count' = iteration_count + 1
                                   /\ assessment' = answer
                              ELSE /\ node' = "evaluate_evidence"
                                   /\ iteration_count' = iteration_count
                                   /\ assessment' = answer
    /\ UNCHANGED <<now, config, gate, retry, last, voting, budget, evidence,
                   max_iterations>>

\* the decision that continues without counting the iteration
SearchDecision_NoIncrement ==
    /\ node = "search_decision"
    /\ evals' = evals + 1
    /\ IF iteration_count >= max_iterations
       THEN /\ node' = "evaluate_evidence"
            /\ consulted' = FALSE
            /\ response' = NoResponse
            /\ UNCHANGED <<iteration_count, assessment>>
       ELSE IF Len(evidence) >= 3 /\ has_authoritative_source(evidence)
       THEN /\ node' = "evaluate_evidence"
            /\ consulted' = FALSE
            /\ response' = NoResponse
            /\ UNCHANGED <<iteration_count, assessment>>
       ELSE IF authoritative_count(evidence) >= 2 /\ Len(evidence) >= 2
       THEN /\ node' = "evaluate_evidence"
            /\ consulted' = FALSE
            /\ response' = NoResponse
            /\ UNCHANGED <<iteration_count, assessment>>
       ELSE /\ consulted' = TRUE
            /\ \E answer \in Responses :
                  /\ response' = answer
                  /\ IF ~answer.answered
                     THEN /\ node' = "evaluate_evidence"
                          /\ UNCHANGED <<iteration_count, assessment>>
                     ELSE LET should_continue ==
                                  /\ answer.needs_more_evidence
                                  /\ iteration_count < max_iterations
                          IN  IF should_continue
                              THEN /\ node' = "generate_search_query"
                                   /\ iteration_count' = iteration_count
                                   /\ assessment' = answer
                              ELSE /\ node' = "evaluate_evidence"
                                   /\ iteration_count' = iteration_count
                                   /\ assessment' = answer
    /\ UNCHANGED <<now, config, gate, retry, last, voting, budget, evidence,
                   max_iterations>>

\* the decision that stops one round before the cap
SearchDecision_StopEarly ==
    /\ node = "search_decision"
    /\ evals' = evals + 1
    /\ IF iteration_count >= max_iterations
       THEN /\ node' = "evaluate_evidence"
            /\ consulted' = FALSE
            /\ response' = NoResponse
            /\ UNCHANGED <<iteration_count, assessment>>
       ELSE IF Len(evidence) >= 3 /\ has_authoritative_source(evidence)
       THEN /\ node' = "evaluate_evidence"
            /\ consulted' = FALSE
            /\ response' = NoResponse
            /\ UNCHANGED <<iteration_count, assessment>>
       ELSE IF authoritative_count(evidence) >= 2 /\ Len(evidence) >= 2
       THEN /\ node' = "evaluate_evidence"
            /\ consulted' = FALSE
            /\ response' = NoResponse
            /\ UNCHANGED <<iteration_count, assessment>>
       ELSE /\ consulted' = TRUE
            /\ \E answer \in Responses :
                  /\ response' = answer
                  /\ IF ~answer.answered
                     THEN /\ node' = "evaluate_evidence"
                          /\ UNCHANGED <<iteration_count, assessment>>
                     ELSE LET should_continue ==
                                  /\ answer.needs_more_evidence
                                  /\ iteration_count + 1 < max_iterations
                          IN  IF should_continue
                              THEN /\ node' = "generate_search_query"
                                   /\ iteration_count' = iteration_count + 1
                                   /\ assessment' = answer
                              ELSE /\ node' = "evaluate_evidence"
                                   /\ iteration_count' = iteration_count
                                   /\ assessment' = answer
    /\ UNCHANGED <<now, config, gate, retry, last, voting, budget, evidence,
                   max_iterations>>

\* search_decision.py:78-177: one evaluation of search_decision_node
SearchDecision ==
    /\ node = "search_decision"
    /\ evals' = evals + 1
    /\ IF iteration_count >= max_iterations
       THEN /\ node' = "evaluate_evidence"
            /\ consulted' = FALSE
            /\ response' = NoResponse
            /\ UNCHANGED <<iteration_count, assessment>>
       ELSE IF Len(evidence) >= 3 /\ has_authoritative_source(evidence)
       THEN /\ node' = "evaluate_evidence"
            /\ consulted' = FALSE
            /\ response' = NoResponse
            /\ UNCHANGED <<iteration_count, assessment>>
       ELSE IF authoritative_count(evidence) >= 2 /\ Len(evidence) >= 2
       THEN /\ node' = "evaluate_evidence"
            /\ consulted' = FALSE
            /\ response' = NoResponse
            /\ UNCHANGED <<iteration_count, assessment>>
       ELSE /\ consulted' = TRUE
            /\ \E answer \in Responses :
                  /\ response' = answer
                  /\ IF ~answer.answered
                     THEN /\ node' = "evaluate_evidence"
                          /\ UNCHANGED <<iteration_count, assessment>>
                     ELSE LET should_continue ==
                                  /\ answer.needs_more_evidence
                                  /\ iteration_count < max_iterations
                          IN  IF should_continue
                              THEN /\ node' = "generate_search_query"
                                   /\ iteration_count' = iteration_count + 1
                                   /\ assessment' = answer
                              ELSE /\ node' = "evaluate_evidence"
                                   /\ iteration_count' = iteration_count
                                   /\ assessment' = answer
    /\ UNCHANGED <<now, config, gate, retry, last, voting, budget, evidence,
                   max_iterations>>

SearchNext ==
    \/ \E found \in SeqsOf(UrlPool, MaxFound) : GatherEvidence(found)
    \/ SearchDecision

SearchSpec == SearchInit /\ [][SearchNext]_vars

(* --------------------------- a burst of failures ----------------------- *)
\* The process-wide gate with the default breaker (5 failures, 30 s timeout,
\* 60 s window) during and after a burst of server errors: tasks of earlier
\* calls fail with HTTP 500 in the first seconds, and the calls 1..NumCalls
\* of execute are made at any time; the tasks of the calls admitted are still
\* running when the clock reaches MaxClock.
BurstInit ==
    /\ LayerIdle
    /\ VotingIdle
    /\ BudgetIdle
    /\ SearchIdle

\* time passes, up to MaxClock seconds
BurstTick ==
    /\ now < MaxClock
    /\ Tick

\* rate_limiter.py:131-136, 41-59: the task of an earlier call raises a 5xx
\* error and execute records the failure; at most MaxFailures such failures,
\* within the first MaxFailures seconds
BurstFailure ==
    /\ Len(streak) < MaxFailures
    /\ now < MaxFailures
    /\ lock = NoCaller
    /\ LET r == record_failure(failures, is_open, opened_at, now,
                               failure_threshold, window_seconds)
       IN  /\ failures' = r[1]
           /\ is_open' = r[2]
           /\ opened_at' = r[3]
    /\ lock' = NoCaller
    /\ streak' = Append(streak, now)
    /\ last' = [op |-> "raise", c |-> NoCaller,
                err |-> [status |-> 500, msg |-> <<"H","T","T","P"," ","5","0","0">>]]
    /\ UNCHANGED <<now, config, nodes, semaphore, pc, wake, probe, retry>>

BurstNext ==
    \/ BurstTick
    \/ BurstFailure
    \/ \E c \in Callers : Execute(c)
    \/ \E c \in Callers : Wake(c)

BurstSpec == BurstInit /\ [][BurstNext]_vars

(* ------------------------- fair specification ------------------------- *)
\* The event loop keeps running: while time can pass, a sleep has ended, a
\* slot is free for a blocked caller or a task is running (every task
\* terminates: it returns or raises), one of these steps is taken.
Progress ==
    \/ Tick
    \/ \E c \in Callers : Wake(c)
    \/ \E c \in Callers : Acquire(c)
    \/ \E c \in Callers : TaskReturn(c)
    \/ \E c \in Callers, e \in Errors : TaskRaise(c, e)

Fairness == WF_vars(Progress)

LiveSpec == Init /\ [][Next]_vars /\ Fairness

(* ------------------------------ claims -------------------------------- *)
Running == {c \in Callers : pc[c] = "task"}
NoneInFlight == \A c \in Callers : pc[c] \in {"idle", "done"}

\* caller c passes admission in this step: check_and_wait returns to execute
Admitted(c) == pc[c] \in {"idle", "sleep"} /\ pc'[c] \in {"acquire", "task"}

\* the status codes of the server-side (5xx) class
Is5xxClass(e) == e.status \in 500..599

\* the last n entries of s exist and lie within w seconds before t
LastWithin(s, n, t, w) ==
    /\ Len(s) >= n
    /\ \A i \in (Len(s) - n + 1)..Len(s) : t - s[i] < w

\* C1: the number of tasks running at the same time never exceeds
\* max_concurrent, for any number of callers and any interleaving.
C1_BoundedConcurrency == Cardinality(Running) <= max_concurrent

\* C1 witness: the gate is saturated with two tasks and a third caller blocks.
C1_Witness ==
    /\ max_concurrent = 2
    /\ Cardinality(Running) = 2
    /\ \E c \in Callers : pc[c] = "acquire"

\* C2: the permits held are exactly those of the tasks inside the gate, on
\* every exit path (return, raise, cancellation), and with no call in
\* flight all max_concurrent permits are available again.
C2_NoLeakedPermits ==
    /\ max_concurrent - semaphore = Cardinality(Running)
    /\ (NoneInFlight => semaphore = max_concurrent)

\* C2 witness: the last call in flight has just left the gate by raising.
C2_Witness ==
    /\ last.op = "raise"
    /\ NoneInFlight
    /\ \E c \in Callers : pc[c] = "done" /\ last.c # c

\* C3: when the F-th of F consecutive recorded failures (no success in
\* between), all within W seconds, reaches a CLOSED breaker, the breaker
\* becomes OPEN with opened_at stamped at the time of that failure.
C3_OpensAtThreshold ==
    [][ ( /\ streak' = Append(streak, now)
          /\ ~is_open
          /\ LastWithin(streak', failure_threshold, now, window_seconds) )
        => (is_open' /\ opened_at' = now) ]_vars

\* C3 witness: the second of two consecutive failures has opened a breaker
\* of threshold 2.
C3_Witness ==
    /\ failure_threshold = 2
    /\ last.op = "raise"
    /\ Len(streak) = 2
    /\ is_open
    /\ opened_at = now

\* C4: a recorded success leaves the failure window empty and the breaker
\* CLOSED whatever its prior state, and the breaker is never OPEN with fewer
\* than F failures recorded since the last success.
C4_SuccessResets ==
    /\ last.op = "return" => (failures = <<>> /\ ~is_open /\ opened_at = None)
    /\ is_open => Len(streak) >= failure_threshold

\* C4 witness: a task returned while another caller was still waiting out
\* the OPEN timeout, so the success found the breaker OPEN.
C4_Witness ==
    /\ last.op = "return"
    /\ \E c \in Callers : pc[c] = "sleep" /\ wake[c] > now

\* C5 (as claimed): while the probe that half-opened the breaker has not
\* left the gate, no other caller passes admission.
C5_SingleProbe ==
    [][ (probe # NoCaller /\ probe' = probe)
        => \A c \in Callers \ {probe} : ~Admitted(c) ]_vars

\* C6 (as claimed): the probe's success leaves the breaker CLOSED and the
\* probe's recorded server-error failure leaves it OPEN with opened_at
\* stamped at the time of that failure.
C6_ProbeDecides ==
    [][ (probe # NoCaller /\ last'.c = probe)
        => /\ last'.op = "return" => ~is_open'
           /\ (last'.op = "raise" /\ IsServerError(last'.err))
                 => (is_open' /\ opened_at' = now) ]_vars

\* C7 (as claimed): while the breaker is OPEN and fewer than T seconds have
\* elapsed since opened_at, no caller passes admission.
C7_NoAdmissionWhileOpen ==
    [][ (is_open /\ now - opened_at < timeout_seconds)
        => \A c \in Callers : ~Admitted(c) ]_vars

\* C8 (as claimed): a task failure is recorded as a breaker failure exactly
\* when it is of the 5xx class; any other failure leaves the breaker's
\* window and state unchanged.
C8_OnlyServerErrorsCount ==
    [][ last'.op = "raise"
        => IF Is5xxClass(last'.err)
           THEN streak' = Append(streak, now)
           ELSE UNCHANGED <<failures, is_open, opened_at>> ]_vars

\* C9: under fair scheduling and with every task terminating, every call of
\* execute eventually runs its task unless its caller cancels it: a call that
\* waits (for the OPEN timeout or for a slot) stops waiting only to run its
\* task, never by a rejection, and no call waits forever.
C9_EventuallyRuns ==
    /\ [][ \A c \in Callers :
              (pc[c] \in {"sleep", "acquire"} /\ pc'[c] \notin {"sleep", "acquire"})
                 => (pc'[c] = "task" \/ (last'.op = "cancel" /\ last'.c = c)) ]_vars
    /\ <>[](\A c \in Callers : pc[c] \notin {"sleep", "acquire"})

\* C9 witness: one caller waits out the OPEN timeout while another is
\* blocked on the saturated semaphore.
C9_Witness ==
    /\ \E c \in Callers : pc[c] = "sleep"
    /\ \E c \in Callers : pc[c] = "acquire"

\* the attempts of call_llm_with_structured_output now awaiting the model
InFlight == {r \in RetryCallers : rpc[r] = "invoke"}

\* C10 (as claimed): every attempt is run through execute, so each attempt
\* in flight holds a semaphore slot of its own: there are never more
\* attempts in flight than slots held.
C10_AttemptsHoldSlots ==
    Cardinality(InFlight) <= max_concurrent - semaphore

(* ---------------- claims: call_llm_with_structured_output -------------- *)
\* the attempt of call r that was awaiting the model ends in this step
AttemptEnds(r) == rpc[r] = "invoke" /\ rpc'[r] # "invoke" /\ last'.c = r

\* C11: the call never raises because the external call failed: a failing
\* attempt leads to a backoff or, when it was attempt number max_retries, to
\* the return of None after exactly max_retries invocations; a succeeding
\* attempt returns a value at once, and a returned call invokes no more.
C11_NoneAfterMaxRetries ==
    /\ [][ \A r \in RetryCallers :
              /\ (AttemptEnds(r) /\ last'.op = "llm_ok")
                    => (rpc'[r] = "done" /\ result'[r] \in Values)
              /\ (AttemptEnds(r) /\ last'.op = "llm_fail")
                    => IF attempt[r] + 1 = max_retries
                       THEN rpc'[r] = "done" /\ result'[r] = "None"
                       ELSE rpc'[r] = "backoff" /\ result'[r] = NoResult
              /\ rpc[r] = "done"
                    => (rpc'[r] = "done" /\ result'[r] = result[r]
                          /\ attempt'[r] = attempt[r]) ]_vars
    /\ [](\A r \in RetryCallers :
              /\ attempt[r] + 1 <= max_retries
              /\ rpc[r] = "done" => result[r] \in Values \cup {"None"}
              /\ result[r] = "None" => attempt[r] + 1 = max_retries)

\* C11 witness: a call with max_retries = 3 returned None after its third
\* attempt failed.
C11_Witness ==
    /\ max_retries = 3
    /\ last.op = "llm_fail"
    /\ \E r \in RetryCallers :
          rpc[r] = "done" /\ result[r] = "None" /\ attempt[r] = 2

\* a malformed request / client error: the Permanent class of the taxonomy
IsPermanent(e) == e.status = 400

\* C12 (as claimed): a failure of the Permanent class is not retried: the
\* call returns the failure result without a backoff wait or another attempt.
C12_PermanentNotRetried ==
    [][ \A r \in RetryCallers :
          (AttemptEnds(r) /\ last'.op = "llm_fail" /\ IsPermanent(last'.err))
             => (rpc'[r] = "done" /\ result'[r] = "None") ]_vars

\* C13: before the retry that follows failed attempt number a (from 0) the
\* call waits 2^a seconds, or 3 * 2^a seconds when the failure was classified
\* rate-limited; after the last permitted attempt it does not wait.
C13_BackoffWait ==
    [][ \A r \in RetryCallers :
          (AttemptEnds(r) /\ last'.op = "llm_fail")
             => IF attempt[r] + 1 < max_retries
                THEN /\ rpc'[r] = "backoff"
                     /\ wait_time'[r] = IF IsRateLimit(last'.err)
                                        THEN 3 * (2 ^ attempt[r])
                                        ELSE 2 ^ attempt[r]
                ELSE /\ rpc'[r] = "done"
                     /\ wait_time'[r] = 0 ]_vars

\* C13 witness: the second attempt (a = 1) failed with a rate-limit error and
\* the call sleeps 3 * 2 = 6 seconds before its third attempt.
C13_Witness ==
    /\ last.op = "llm_fail"
    /\ IsRateLimit(last.err)
    /\ \E r \in RetryCallers :
          rpc[r] = "backoff" /\ attempt[r] = 1 /\ wait_time[r] = 6

(* ----------------------- claims: process_with_voting ------------------- *)
\* the loop has just voted on an item
Voted == Len(gathered') = Len(gathered) + 1

\* the attempts gathered for the item the loop has voted on last
LastAttempts(g) == g[Len(g)].attempts

\* the items processed so far that reached the quorum
Quorate == {k \in 1..Len(gathered) :
               success_count(gathered[k].attempts) >= min_successes}

\* C14: an item with fewer successful attempts than min_successes emits no
\* result at all, so the output holds at most one result per item that
\* reached the quorum (one entry fewer than the input for completions = 2,
\* min_successes = 2 and one failed attempt).
C14_BelowQuorumDropped ==
    /\ [][ (Voted /\ success_count(LastAttempts(gathered')) < min_successes)
              => results' = results ]_vars
    /\ [](Len(results) <= Cardinality(Quorate))

\* C14 witness: with completions = 2 and min_successes = 2, one attempt of
\* one of two items failed and the returned list is one entry shorter than
\* the input.
C14_Witness ==
    /\ vpc = "returned"
    /\ completions = 2
    /\ min_successes = 2
    /\ Len(items) = 2
    /\ Len(results) = 1
    /\ \E k \in 1..Len(gathered) : success_count(gathered[k].attempts) = 1

\* the first successful attempt in launch order
FirstSuccess(atts) ==
    atts[CHOOSE i \in 1..Len(atts) :
            atts[i][1] /\ \A j \in 1..(i - 1) : ~atts[j][1]]

\* C15 (as claimed): an item with at least min_successes successful attempts
\* emits exactly one result, built from its first successful attempt.
C15_FirstSuccessWins ==
    [][ (Voted /\ success_count(LastAttempts(gathered')) >= min_successes)
          => results' = Append(results,
                               result_factory(
                                   FirstSuccess(LastAttempts(gathered'))[2],
                                   gathered'[Len(gathered')].item)) ]_vars

\* the items of inp that reached the quorum, in order
Kept(inp, min) ==
    SelectSeq(inp, LAMBDA x : success_count(x.attempts) >= min)

\* C16: items are independent: the results are those of the function on the
\* items processed, which splits at every point
\* (process(xs ++ ys) = process(xs) ++ process(ys)), and removing the dropped
\* items from the input changes nothing.
C16_ItemsIndependent ==
    /\ results = process_with_voting(gathered, min_successes)
    /\ \A k \in 0..Len(gathered) :
          process_with_voting(gathered, min_successes)
             = process_with_voting(SubSeq(gathered, 1, k), min_successes)
                 \o process_with_voting(SubSeq(gathered, k + 1, Len(gathered)),
                                        min_successes)
    /\ process_with_voting(Kept(gathered, min_successes), min_successes)
          = process_with_voting(gathered, min_successes)

\* C16 witness: the first of two items was dropped and the second one, voted
\* on after it, emitted its result.
C16_Witness ==
    /\ vpc = "returned"
    /\ Len(gathered) = 2
    /\ success_count(gathered[1].attempts) < min_successes
    /\ success_count(gathered[2].attempts) >= min_successes
    /\ Len(results) = 1

(* ---------------- claims: truncate_evidence_for_token_limit ------------ *)
\* available = maxTokens - overhead - 4000
Available == max_tokens - estimate_token_count(prompt_chars) - ReservedOutput

\* the last k items of the input, in input order
Suffix(k) ==
    SubSeq(evidence_items, Len(evidence_items) - k + 1, Len(evidence_items))

\* the number of items the greedy walk keeps: the length of the longest
\* suffix of the input whose formatted cost is within  available
FitCount ==
    Cardinality({k \in 1..Len(evidence_items) :
                    \A j \in 1..k :
                       estimate_token_count(format_chars(Suffix(j))) <= Available})

\* the first min(3, n) items of the input
Floor == SubSeq(evidence_items, 1,
                IF Len(evidence_items) < 3 THEN Len(evidence_items) ELSE 3)

\* C17: with a budget too small for the overhead (available <= 0) the result
\* is exactly the first min(3, n) input items, so it is never empty for a
\* non-empty input.
C17_DegenerateFloor ==
    (tpc = "returned" /\ Available <= 0)
       => /\ truncated = Floor
          /\ evidence_items # <<>> => truncated # <<>>

\* C17 witness: four items and no room beyond the overhead: the first three
\* are returned.
C17_Witness ==
    /\ tpc = "returned"
    /\ Available <= 0
    /\ Len(evidence_items) = 4
    /\ truncated = SubSeq(evidence_items, 1, 3)

\* C18 (as claimed): when available > 0 and the walk keeps at least 3 items
\* or all items, the result is exactly the longest suffix of the input that
\* fits, in input order, for every input list.
C18_LongestSuffix ==
    (tpc = "returned" /\ Available > 0
        /\ (FitCount >= 3 \/ FitCount = Len(evidence_items)))
       => truncated = Suffix(FitCount)

\* C19 (as claimed): when the walk selects nothing from a non-empty input
\* the result is the first min(3, n) items; when it selects 1 or 2 items of
\* an input of at least 3 the result is exactly the first 3 items; in every
\* other case the greedy selection is returned unchanged.
C19_MinimumFloor ==
    (tpc = "returned" /\ Available > 0)
       => IF FitCount = 0
          THEN truncated = Floor
          ELSE IF FitCount < 3 /\ Len(evidence_items) >= 3
               THEN truncated = SubSeq(evidence_items, 1, 3)
               ELSE truncated = Suffix(FitCount)

(* --------------------- claims: search_decision_node -------------------- *)
\* an evaluation of search_decision_node happens in this step
Evaluates == node = "search_decision" /\ evals' = evals + 1

\* C20: hard cap: every evaluation with iteration_count >= max_iterations
\* goes to evaluate_evidence (DONE), whatever the evidence, without asking
\* for the sufficiency assessment and without changing the count.
C20_HardCap ==
    [][ (Evaluates /\ iteration_count >= max_iterations)
          => /\ node' = "evaluate_evidence"
             /\ ~consulted'
             /\ iteration_count' = iteration_count ]_vars

\* C20 witness: the run reached evaluate_evidence at the cap with evidence
\* that triggers no early exit, and the assessment was not asked in that
\* evaluation.
C20_Witness ==
    /\ node = "evaluate_evidence"
    /\ iteration_count = max_iterations
    /\ max_iterations = 2
    /\ ~consulted
    /\ evidence # <<>>
    /\ ~has_authoritative_source(evidence)

\* s ends with suf
EndsWith(suf, s) ==
    /\ Len(s) >= Len(suf)
    /\ SubSeq(s, Len(s) - Len(suf) + 1, Len(s)) = suf

\* domain/suffix match: the host of url is the domain d or ends with d at a
\* label boundary
DomainMatch(d, url) ==
    /\ EndsWith(d, url)
    /\ \/ Len(url) = Len(d)
       \/ d[1] = "."
       \/ url[Len(url) - Len(d)] = "."

\* the item is from a domain of the authoritative allow-list
AllowListed(url) ==
    \E d \in AUTHORITATIVE_DOMAINS : DomainMatch(d, Lower(url))

\* the number of items of ev from the allow-list
AllowListedCount(ev) == Cardinality({i \in 1..Len(ev) : AllowListed(ev[i])})

\* C21 (as claimed): below the cap, an evaluation goes to evaluate_evidence
\* without asking for the assessment whenever the evidence has at least 3
\* items of which one is from the allow-list, or at least 2 allow-listed
\* items; when neither holds the assessment is asked for.
C21_EarlyExit ==
    [][ (Evaluates /\ iteration_count < max_iterations)
          => IF \/ (Len(evidence) >= 3 /\ AllowListedCount(evidence) >= 1)
                \/ (AllowListedCount(evidence) >= 2 /\ Len(evidence) >= 2)
             THEN node' = "evaluate_evidence" /\ ~consulted'
             ELSE consulted' ]_vars

\* C22 (as claimed): below the cap, 3 items of which exactly 1 is from an
\* allow-listed domain do not early-exit (the assessment is asked for),
\* whereas 2 items that are both allow-listed early-exit.
C22_ScenarioAsClaimed ==
    [][ (Evaluates /\ iteration_count < max_iterations)
          => /\ (Len(evidence) = 3 /\ AllowListedCount(evidence) = 1)
                   => consulted'
             /\ (Len(evidence) = 2 /\ AllowListedCount(evidence) = 2)
                   => (node' = "evaluate_evidence" /\ ~consulted') ]_vars

\* C22 (amended): below the cap, 3 items of which exactly 1 is from an
\* allow-listed domain early-exit to evaluate_evidence without the assessment
\* (the first heuristic: at least 3 items, at least 1 authoritative), and so
\* do 2 items that are both allow-listed.
C22_Scenario ==
    [][ (Evaluates /\ iteration_count < max_iterations)
          => /\ (Len(evidence) = 3 /\ AllowListedCount(evidence) = 1)
                   => (node' = "evaluate_evidence" /\ ~consulted'
                         /\ iteration_count' = iteration_count)
             /\ (Len(evidence) = 2 /\ AllowListedCount(evidence) = 2)
                   => (node' = "evaluate_evidence" /\ ~consulted'
                         /\ iteration_count' = iteration_count) ]_vars

\* C22 witness: an evaluation below the cap ended in evaluate_evidence
\* without the assessment on 3 items of which exactly 1 is authoritative.
C22_Witness ==
    /\ node = "evaluate_evidence"
    /\ iteration_count < max_iterations
    /\ ~consulted
    /\ Len(evidence) = 3
    /\ AllowListedCount(evidence) = 1
    /\ authoritative_count(evidence) = 1

\* C23: when the assessment gives no answer (the call returned nothing), the
\* evaluation goes to evaluate_evidence with iteration_count and the evidence
\* unchanged: it neither gathers again nor ends the run another way.
C23_FailureStops ==
    [][ (Evaluates /\ consulted' /\ ~response'.answered)
          => /\ node' = "evaluate_evidence"
             /\ iteration_count' = iteration_count
             /\ evidence' = evidence
             /\ assessment' = assessment ]_vars

\* C23 witness: the assessment gave no answer in the second evaluation of a
\* run whose searches found nothing: the run is at evaluate_evidence with no
\* evidence and the count of the first round.
C23_Witness ==
    /\ node = "evaluate_evidence"
    /\ consulted
    /\ ~response.answered
    /\ evidence = <<>>
    /\ iteration_count = 1
    /\ evals = 2

\* C24: from iteration_count 0 the run is at evaluate_evidence after at most
\* max_iterations + 1 evaluations, whatever the searches find and the
\* assessment answers; iteration_count changes only in an evaluation that
\* continues gathering, by exactly 1, and never exceeds max_iterations;
\* evaluate_evidence is not left again.
C24_Terminates ==
    /\ [](/\ evals <= max_iterations + 1
          /\ iteration_count <= max_iterations
          /\ evals = max_iterations + 1 => node = "evaluate_evidence")
    /\ [][ /\ iteration_count' # iteration_count
                => (Evaluates /\ node' = "generate_search_query")
           /\ (Evaluates /\ node' = "generate_search_query")
                => iteration_count' = iteration_count + 1
           /\ node = "evaluate_evidence" => node' = node ]_vars

\* C24 witness: with max_iterations = 3 the assessment asked for more
\* evidence three times and evaluation number 4 ended the loop at the cap.
C24_Witness ==
    /\ max_iterations = 3
    /\ evals = 4
    /\ iteration_count = 3
    /\ node = "evaluate_evidence"

\* C28: when no cap or heuristic applies and the assessment answers: with
\* needs_more_evidence false the run goes to evaluate_evidence and the count
\* stays; with needs_more_evidence true it goes back to gathering with the
\* count one higher, unless that would put the count above max_iterations,
\* in which case it goes to evaluate_evidence.
C28_AssessmentDecides ==
    [][ (Evaluates /\ consulted' /\ response'.answered)
          => /\ assessment' = response'
             /\ IF ~response'.needs_more_evidence
                THEN /\ node' = "evaluate_evidence"
                     /\ iteration_count' = iteration_count
                ELSE IF iteration_count + 1 > max_iterations
                     THEN /\ node' = "evaluate_evidence"
                          /\ iteration_count' = iteration_count
                     ELSE /\ node' = "generate_search_query"
                          /\ iteration_count' = iteration_count + 1 ]_vars

\* C28 witness: the assessment asked for more evidence in the last round the
\* cap allows: the run gathers again with the count at max_iterations.
C28_Witness ==
    /\ node = "generate_search_query"
    /\ consulted
    /\ response.answered
    /\ response.needs_more_evidence
    /\ max_iterations = 2
    /\ iteration_count = max_iterations

(* ------------------------ claims: CircuitBreaker ----------------------- *)
\* a server-error failure is recorded in this step
Records == streak' = Append(streak, now)

\* C26: sliding window: a CLOSED breaker opens only in the recording of a
\* failure that is the last of at least F failures recorded within the last W
\* seconds and after the most recent success; each recording leaves in the
\* window exactly the failures younger than W, so failures of which no F
\* fall within W seconds never open the breaker.
C26_SlidingWindow ==
    [][ /\ (~is_open /\ is_open')
             => (Records /\ LastWithin(streak', failure_threshold, now,
                                       window_seconds))
        /\ Records
             => /\ \A i \in 1..Len(failures') :
                      now - failures'[i] < window_seconds
                /\ failures' = SelectSeq(Append(failures, now),
                                  LAMBDA f : now - f < window_seconds) ]_vars

\* C26 witness: two failures W seconds apart reached a breaker of threshold
\* 2: the older one was pruned and the breaker is still CLOSED.
C26_Witness ==
    /\ failure_threshold = 2
    /\ last.op = "raise"
    /\ Len(streak) = 2
    /\ streak[2] - streak[1] >= window_seconds
    /\ failures = <<now>>
    /\ ~is_open

\* C30: is_open holds exactly when opened_at is set, in every reachable
\* state, so check_and_wait computes elapsed from a set timestamp that is not
\* in the future.
C30_OpenedAtSet ==
    /\ is_open <=> opened_at # None
    /\ is_open => opened_at \in 0..now

\* C30 witness: a breaker that was opened, half-opened by check_and_wait and
\* closed, then opened again by a later failure while a caller still sleeps.
C30_Witness ==
    /\ is_open
    /\ opened_at = now
    /\ now > 0
    /\ last.op = "raise"
    /\ \E c \in Callers : pc[c] = "sleep"

\* C29: the breaker's lock is held only within the step of a state check or
\* update: between steps nobody holds it, so a caller sleeping out the OPEN
\* timeout holds neither the lock nor a slot (the slots held are those of the
\* running tasks) and no task runs under the lock; a finished task can
\* always record its outcome, and while a call is in flight some step of the
\* event loop is possible (no deadlock).
C29_LockNotHeldAcrossWaits ==
    /\ lock = NoCaller
    /\ \A c \in Callers : pc[c] \in {"sleep", "acquire", "task"} => lock # c
    /\ max_concurrent - semaphore = Cardinality(Running)
    /\ \A c \in Callers :
          pc[c] = "task"
             => /\ ENABLED TaskReturn(c)
                /\ \A e \in Errors : ENABLED TaskRaise(c, e)
    /\ ~NoneInFlight => ENABLED Progress

\* C29 witness: one caller sleeps out the OPEN timeout while another still
\* runs its task, with a slot free.
C29_Witness ==
    /\ is_open
    /\ \E c \in Callers : pc[c] = "sleep" /\ wake[c] > now
    /\ \E c \in Callers : pc[c] = "task"
    /\ semaphore = 1

\* failures at the seconds 0, 1, ..., k - 1
Burst(k) == [i \in 1..k |-> i - 1]

\* the first four failures of the burst leave the breaker CLOSED and the
\* fifth, at t = 4, opens it with opened_at = 4
BurstOpens ==
    Records => /\ \A k \in 1..4 : streak' = Burst(k) => ~is_open'
               /\ streak' = Burst(5) => (is_open' /\ opened_at' = 4)

\* call c of execute is made while the breaker is still OPEN from the burst
AsksAfterBurst(c) ==
    /\ streak = Burst(5)
    /\ is_open
    /\ pc[c] = "idle"
    /\ pc'[c] # "idle"

\* C25 (as claimed): F = 5, W = 60, T = 30 and failures at t = 0..4: CLOSED
\* after the first 4, OPEN at the fifth, and a caller asking for admission at
\* t = 30 is admitted as the probe.
C25_ProbeAtThirty ==
    [][ /\ BurstOpens
        /\ \A c \in Callers :
              (AsksAfterBurst(c) /\ now = 30)
                 => (Admitted(c) /\ probe' = c /\ ~is_open') ]_vars

\* C25 (amended): F = 5, W = 60, T = 30 and failures at t = 0..4: CLOSED
\* after the first 4, OPEN at the fifth with opened_at = 4; a caller asking
\* for admission before t = 34 (at t = 30 too) is not admitted but sleeps
\* until t = 34, and a caller asking at t = 34 or later is admitted as the
\* probe, which half-opens the breaker.
C25_ProbeAfterTimeout ==
    [][ /\ BurstOpens
        /\ \A c \in Callers :
              AsksAfterBurst(c)
                 => IF now < 34
                    THEN /\ ~Admitted(c)
                         /\ pc'[c] = "sleep"
                         /\ wake'[c] = 34
                         /\ is_open'
                    ELSE /\ Admitted(c)
                         /\ probe' = c
                         /\ ~is_open' ]_vars

\* C25 witness: at t = 34 a caller has been admitted as the probe of the
\* breaker opened by the burst, while a caller that asked earlier has slept
\* until t = 34.
C25_Witness ==
    /\ now = 34
    /\ streak = Burst(5)
    /\ ~is_open
    /\ probe # NoCaller
    /\ pc[probe] = "task"
    /\ \E c \in Callers : pc[c] = "sleep" /\ wake[c] = 34

(* ------------------ claims: the attempts of one item ------------------- *)
\* C27: for each item exactly completions attempts are launched, all at
\* once and only when no attempt of the previous item is left; every attempt
\* launched ends by completing (none is cancelled or skipped, also when the
\* quorum is already decided), and the successes are counted only when all
\* attempts of the item have completed.
C27_WaitsForAll ==
    /\ [][ /\ (vpc = "gather" /\ vpc' = "await")
                => /\ pending = {}
                   /\ pending' = 1..completions
                   /\ Cardinality(pending') = completions
                   /\ UNCHANGED <<gathered, results>>
           /\ pending' # pending
                => \/ vpc = "gather" /\ vpc' = "await"
                   \/ \E i \in pending :
                         /\ pending' = pending \ {i}
                         /\ UNCHANGED <<gathered, results, vpc>>
                         /\ slots'[i] \in AttemptOutcomes
           /\ Voted
                => /\ pending = {}
                   /\ Len(LastAttempts(gathered')) = completions
                   /\ LastAttempts(gathered') = slots ]_vars
    /\ [](pending # {} => vpc = "await")

\* C27 witness: with 3 attempts per item and a quorum of 1, the first
\* attempt of the second item has succeeded and gather still waits for the
\* other two.
C27_Witness ==
    /\ completions = 3
    /\ min_successes = 1
    /\ Len(gathered) = 1
    /\ vpc = "await"
    /\ Cardinality(pending) = 2
    /\ success_count(slots) = 1

=============================================================================
